---- MODULE Spec2Model ----
(***************************************************************************)
(* Model of the upload / clean / partition / download flow of              *)
(* application.py (Streamlit demo "Managing Space Complexity").            *)
(*                                                                         *)
(* A DataFrame is a record [columns, index, rows]: columns is the sequence *)
(* of column names, rows the sequence of rows, a row being a function from *)
(* column name to cell, and index the sequence of the row labels (the row  *)
(* numbers 0, 1, .. given at ingestion, which filtering keeps).  A cell    *)
(* is a record [k, v]: k is the kind of the value ("int", "str", "text",   *)
(* "null", "dt", "nat") and v its content: a                               *)
(* number, the day a date text or a datetime denotes, or the characters of *)
(* a line of text.                                                         *)
(* Time is counted in days.                                                *)
(***************************************************************************)
EXTENDS Integers, Sequences, FiniteSets, TLC

\* ------------------------------------------------------------------ bounds
MaxRows == 3        \* rows of an uploaded table
FailRows == 2       \* rows of an uploaded table in a run where a library call raises
MaxUnits == 2       \* pages / paragraphs of an uploaded document
MaxChars == 2       \* characters of one page / paragraph / text file unit
StartClock == 45    \* the wall clock (in days) when the session starts
ClockTicks == 1     \* days the wall clock can advance during the session
MaxExp == 6         \* byte counts handed to bytesize_fmt reach 2^20 * 1024^MaxExp

\* ------------------------------------------------------- program constants
Window == 30        \* timedelta(days=30)
HeadRows == 5       \* DataFrame.head() default

\* ------------------------------------------------------------ cell values
Int1(n) == [k |-> "int", v |-> n]
Str(n) == [k |-> "str", v |-> n]
Text(s) == [k |-> "text", v |-> s]
NullCell == [k |-> "null", v |-> 0]
Datetime(n) == [k |-> "dt", v |-> n]
NaT == [k |-> "nat", v |-> 0]

\* the string content that no date parser accepts
BadDate == 0 - 1

\* pandas isna(): NaN / None / NaT are the absent values
IsNa(c) == c.k \in {"null", "nat"}

\* ------------------------------------------------------------- sequences
RECURSIVE SelectRows(_, _)
\* the elements rows[i] with keep[i], in order
SelectRows(rows, keep) ==
    IF rows = <<>> THEN <<>>
    ELSE LET n == Len(rows)
             front == SelectRows(SubSeq(rows, 1, n - 1), SubSeq(keep, 1, n - 1))
         IN  IF keep[n] THEN Append(front, rows[n]) ELSE front

Min(a, b) == IF a < b THEN a ELSE b

Contains(s, x) == \E i \in 1..Len(s) : s[i] = x

\* len(df)
LenDf(df) == Len(df.rows)

\* the labels pandas gives the rows of a new frame
RangeIndex(n) == [i \in 1..n |-> i - 1]

\* a new frame with the given columns and rows
Frame(cols, rows) == [columns |-> cols, index |-> RangeIndex(Len(rows)), rows |-> rows]

RECURSIVE Reverse(_)
Reverse(s) == IF s = <<>> THEN <<>> ELSE Append(Reverse(Tail(s)), s[1])

\* df[mask]: the rows selected by the mask, with their labels
Filter(df, keep) ==
    [columns |-> df.columns,
     index |-> SelectRows(df.index, keep),
     rows |-> SelectRows(df.rows, keep)]

\* df.head()
Head5(df) ==
    LET n == Min(HeadRows, Len(df.rows))
    IN  [columns |-> df.columns, index |-> SubSeq(df.index, 1, n),
         rows |-> SubSeq(df.rows, 1, n)]

\* pd.DataFrame()
EmptyFrame == Frame(<<>>, <<>>)

\* ------------------------------------------------------------ file names
\* A file name is a sequence of tokens; the token "." is the dot, every other
\* token is a run of characters without a dot.
Dot == "."

\* str.lower() of one token
LowerTok(t) ==
    CASE t = "CSV" -> "csv"
      [] t = "Json" -> "json"
      [] t = "Txt" -> "txt"
      [] OTHER -> t

\* str.lower()
Lower(s) == [i \in 1..Len(s) |-> LowerTok(s[i])]

RECURSIVE Split(_)
\* str.split('.'): the pieces between the dots (always at least one piece)
Split(s) ==
    IF ~ Contains(s, Dot) THEN << s >>
    ELSE LET i == CHOOSE j \in 1..Len(s) :
                      s[j] = Dot /\ \A m \in 1..(j - 1) : s[m] # Dot
         IN  << SubSeq(s, 1, i - 1) >> \o Split(SubSeq(s, i + 1, Len(s)))

\* the extension taken without lower()
FileExtension_NoLower(name) == LET pieces == Split(name) IN pieces[Len(pieces)]

\* file_extension = uploaded_file.name.split('.')[-1].lower()
FileExtension(name) == LET pieces == Split(name) IN Lower(pieces[Len(pieces)])

TabularExt == { <<"csv">>, <<"xlsx">>, <<"json">> }
TextExt == { <<"txt">>, <<"pdf">>, <<"docx">> }
\* the branches of read_uploaded_file that build a DataFrame
SupportedExt == TabularExt \cup TextExt

\* ------------------------------------------------------- text ingestion
\* A text is a sequence of characters: "x" (a letter), "sp" (a blank) and
\* "nl" (a line break).
Chars == {"x", "sp", "nl"}

RECURSIVE SplitLines(_)
\* str.splitlines(): a trailing line break does not open a last empty line
SplitLines(s) ==
    IF s = <<>> THEN <<>>
    ELSE IF ~ Contains(s, "nl") THEN << s >>
    ELSE LET i == CHOOSE j \in 1..Len(s) :
                      s[j] = "nl" /\ \A m \in 1..(j - 1) : s[m] # "nl"
         IN  << SubSeq(s, 1, i - 1) >> \o SplitLines(SubSeq(s, i + 1, Len(s)))

RECURSIVE Strip(_)
\* str.strip(): drops leading and trailing white space
Strip(s) ==
    IF s = <<>> THEN <<>>
    ELSE IF s[1] \in {"sp", "nl"} THEN Strip(Tail(s))
    ELSE IF s[Len(s)] \in {"sp", "nl"} THEN Strip(SubSeq(s, 1, Len(s) - 1))
    ELSE s

RECURSIVE Concat(_)
\* text_content += page.extract_text() or "", page after page
Concat(units) ==
    IF units = <<>> THEN <<>> ELSE units[1] \o Concat(Tail(units))

RECURSIVE JoinNl(_)
\* "\n".join([para.text for para in doc.paragraphs])
JoinNl(units) ==
    IF units = <<>> THEN <<>>
    ELSE IF Len(units) = 1 THEN units[1]
    ELSE units[1] \o <<"nl">> \o JoinNl(Tail(units))

\* pd.DataFrame([line.strip() for line in text_content.splitlines()],
\*              columns=['text_content'])
LinesFrame(text) ==
    LET lines == SplitLines(text)
    IN  Frame(<<"text_content">>,
              [i \in 1..Len(lines) |-> [text_content |-> Text(Strip(lines[i]))]])

\* A unit of a document is the text of a txt file, a page of a pdf or a
\* paragraph of a docx: a record [out, text].  For a page, out tells what
\* page.extract_text() does: it returns the text, returns nothing ("none")
\* or raises ("raises").
Unit(t) == [out |-> "text", text |-> t]
NoTextPage == [out |-> "none", text |-> <<>>]
RaisingPage == [out |-> "raises", text |-> <<>>]

\* uploaded_file.read().decode("utf-8") / para.text
UnitText(u) == u.text

\* page.extract_text() or ""
PageText(u) == IF u.out = "text" THEN u.text ELSE <<>>

\* read_uploaded_file on a supported extension: the DataFrame it returns.
\* file.table is what pandas parses out of a csv / xlsx / json file;
\* file.units are the text of a txt file (one unit), the pages of a pdf
\* or the paragraphs of a docx.
ReadFrame(file) ==
    LET ext == FileExtension(file.name)
        n == Len(file.units)
    IN  CASE ext \in TabularExt -> file.table
          [] ext = <<"txt">> ->
               LinesFrame(Concat([i \in 1..n |-> UnitText(file.units[i])]))
          [] ext = <<"pdf">> ->
               LinesFrame(Concat([i \in 1..n |-> PageText(file.units[i])]))
          [] ext = <<"docx">> ->
               LinesFrame(JoinNl([i \in 1..n |-> UnitText(file.units[i])]))

\* read_uploaded_file raises: the library cannot open or parse the file
\* (file.fails = "ingest"), or extract_text() raises on a page of a pdf
ReadRaises(file) ==
    \/ file.fails = "ingest"
    \/ /\ FileExtension(file.name) = <<"pdf">>
       /\ \E i \in 1..Len(file.units) : file.units[i].out = "raises"

\* ------------------------------------------------------------- cleaning
\* dropna(how="all"): drops only the rows whose values are all absent
DropNa_HowAll(df) ==
    Filter(df, [i \in 1..Len(df.rows) |->
                  \E c \in 1..Len(df.columns) : ~ IsNa(df.rows[i][df.columns[c]])])

\* dropna that hands the complete rows back in reverse order
DropNa_Reversed(df) ==
    LET keep == [i \in 1..Len(df.rows) |->
                   \A c \in 1..Len(df.columns) : ~ IsNa(df.rows[i][df.columns[c]])]
    IN  [columns |-> df.columns,
         index |-> Reverse(SelectRows(df.index, keep)),
         rows |-> Reverse(SelectRows(df.rows, keep))]

\* df.dropna(): keeps the rows without an absent value in any column
DropNa(df) ==
    Filter(df, [i \in 1..Len(df.rows) |->
                  \A c \in 1..Len(df.columns) : ~ IsNa(df.rows[i][df.columns[c]])])

\* duplicate removal that compares a row with the row before it only
DropDuplicates_Adjacent(df) ==
    Filter(df, [i \in 1..Len(df.rows) |->
                  ~ (i > 1 /\ df.rows[i - 1] = df.rows[i])])

\* drop_duplicates that keeps the last occurrence of a row
DropDuplicates_KeepLast(df) ==
    Filter(df, [i \in 1..Len(df.rows) |->
                  ~ \E j \in (i + 1)..Len(df.rows) : df.rows[j] = df.rows[i]])

\* df.drop_duplicates(): keep='first' over all columns
DropDuplicates(df) ==
    Filter(df, [i \in 1..Len(df.rows) |->
                  ~ \E j \in 1..(i - 1) : df.rows[j] = df.rows[i]])

\* cleaning that takes after_dup before it removes the duplicates
Cleaning_StaleCount(t) ==
    [before |-> LenDf(t),
     after_na |-> LenDf(DropNa(t)),
     df |-> DropDuplicates(DropNa(t)),
     after_dup |-> LenDf(DropNa(t))]

\* cleaning that removes the duplicates before the incomplete rows
Cleaning_DedupFirst(t) ==
    [before |-> LenDf(t),
     after_na |-> LenDf(DropDuplicates(t)),
     df |-> DropNa(DropDuplicates(t)),
     after_dup |-> LenDf(DropNa(DropDuplicates(t)))]

\* before = len(df); df = df.dropna(); after_na = len(df);
\* df = df.drop_duplicates(); after_dup = len(df)
Cleaning(t) ==
    [before |-> LenDf(t),
     after_na |-> LenDf(DropNa(t)),
     df |-> DropDuplicates(DropNa(t)),
     after_dup |-> LenDf(DropDuplicates(DropNa(t)))]

\* -------------------------------------------------- serialization, sizes
\* a writer that coerces first: a text no date parser accepts is written as
\* the empty field, like the NaT it parses to
Field_Coerced(c) ==
    IF IsNa(c) \/ (c.k = "text" /\ c.v = <<>>) \/ (c.k = "str" /\ c.v = BadDate)
    THEN [k |-> "empty", v |-> 0]
    ELSE [k |-> c.k, v |-> c.v]

\* the text to_csv writes for one cell: an absent value and an empty string
\* are both the empty field
Field(c) ==
    IF IsNa(c) \/ (c.k = "text" /\ c.v = <<>>)
    THEN [k |-> "empty", v |-> 0]
    ELSE [k |-> c.k, v |-> c.v]

\* the csv writer puts a line that is one empty field in quotes, so that the
\* line is not blank
Written(f, width) ==
    IF width = 1 /\ f.k = "empty" THEN [k |-> "quoted", v |-> 0] ELSE f

\* df.to_csv(index=False).encode("utf-8"): the header line, then one line
\* per row with the fields in column order
dataframe_to_csv_bytes(df) ==
    [header |-> df.columns,
     lines |-> [i \in 1..Len(df.rows) |->
                  [c \in 1..Len(df.columns) |->
                     Written(Field(df.rows[i][df.columns[c]]), Len(df.columns))]]]

\* the cell pd.read_csv makes of one field: an empty field, quoted or not,
\* is an absent value
ParsedField(f) ==
    IF f.k \in {"empty", "quoted"} THEN NullCell ELSE [k |-> f.k, v |-> f.v]

\* pd.read_csv of bytes written by to_csv: the header gives the columns,
\* every line a row
ReadCsv(csv) ==
    Frame(csv.header,
          [i \in 1..Len(csv.lines) |->
             [name \in { csv.header[c] : c \in 1..Len(csv.header) } |->
                ParsedField(csv.lines[i][CHOOSE c \in 1..Len(csv.header) :
                                                  csv.header[c] = name])]])

\* gzip.compress(data): a lossless container of the bytes
GzipCompress(data) == [gz |-> data]

\* number of characters of a column name
NameLen(n) ==
    CASE n = "a" -> 1
      [] n = "b" -> 1
      [] n = "timestamp" -> 9
      [] n = "text_content" -> 12

\* number of characters of a field: one digit for a number, the ten
\* characters of a date text, three for an unparsable text, the characters
\* of a line of text
FieldLen(f) ==
    CASE f.k = "empty" -> 0
      [] f.k = "quoted" -> 2
      [] f.k = "int" -> 1
      [] f.k = "str" -> IF f.v = BadDate THEN 3 ELSE 10
      [] f.k = "text" -> Len(f.v)

RECURSIVE SumTo(_, _)
SumTo(f, n) == IF n = 0 THEN 0 ELSE f[n] + SumTo(f, n - 1)

\* len(processed_csv): every field is followed by a comma or a line end
CsvLen(csv) ==
    LET w == Len(csv.header)
        head == SumTo([c \in 1..w |-> NameLen(csv.header[c]) + 1], w)
        line(i) == SumTo([c \in 1..w |-> FieldLen(csv.lines[i][c]) + 1], w)
    IN  IF w = 0 THEN 1
        ELSE head + SumTo([i \in 1..Len(csv.lines) |-> line(i)], Len(csv.lines))

\* len(compressed): the data inside a gzip header and trailer of 20 bytes
GzipLen(z) == 20 + CsvLen(z.gz)

Abs(n) == IF n < 0 THEN 0 - n ELSE n

\* n / d rounded to the nearest integer, ties to even (n, d integers, d > 0)
RoundDiv(n, d) ==
    LET q == n \div d
        r == n - q * d
    IN  IF 2 * r < d THEN q
        ELSE IF 2 * r > d THEN q + 1
        ELSE IF q % 2 = 0 THEN q ELSE q + 1

Units == <<"", "K", "M", "G", "T">>

\* A number handed to bytesize_fmt is a record [m, e] standing for
\* m * 1024^e (m an integer of magnitude below 2^21): such a number and its
\* quotients by 1024 are exact as Python floats.
Num(n) == [m |-> n, e |-> 0]

RECURSIVE Pow1024(_)
Pow1024(k) == IF k = 0 THEN 1 ELSE 1024 * Pow1024(k - 1)

\* abs(num) < 1024.0, for num = m * 1024^s (a mantissa is below 1024^4)
Below1024(m, s) ==
    IF m = 0 THEN TRUE
    ELSE IF s >= 1 THEN FALSE
    ELSE IF s <= 0 - 3 THEN TRUE
    ELSE Abs(m) < Pow1024(1 - s)

\* num printed with the given number of decimals, for num = m * 1024^s: the
\* printed number is scaled * 1024^exp / 10^decimals
Printed(m, s, decimals, unit) ==
    LET ten == IF decimals = 2 THEN 100 ELSE 10
    IN  IF s >= 0
        THEN [scaled |-> ten * m, exp |-> s, decimals |-> decimals, unit |-> unit]
        ELSE [scaled |-> RoundDiv(ten * m, Pow1024(0 - s)), exp |-> 0,
              decimals |-> decimals, unit |-> unit]

RECURSIVE FmtFrom(_, _, _)
\* the loop of bytesize_fmt from unit i on, num being m * 1024^s
FmtFrom(m, s, i) ==
    IF i > Len(Units)
    THEN Printed(m, s, 1, "P")
    ELSE IF Below1024(m, s)
    THEN Printed(m, s, 2, Units[i])
    ELSE FmtFrom(m, s - 1, i + 1)

\* bytesize_fmt(num)
bytesize_fmt(num) == FmtFrom(num.m, num.e, 1)

\* ---------------------------------------------------------- partitioning
\* pd.to_datetime(value, errors="coerce") of one cell
ToDatetime(c) ==
    CASE c.k = "dt" -> c
      [] c.k = "str" /\ c.v # BadDate -> Datetime(c.v)
      [] c.k = "int" -> Datetime(c.v)
      [] OTHER -> NaT

\* df["timestamp"] = pd.to_datetime(df["timestamp"], errors="coerce")
ParseTimestamps(df) ==
    [df EXCEPT !.rows = [i \in 1..Len(df.rows) |->
        [df.rows[i] EXCEPT !.timestamp = ToDatetime(df.rows[i].timestamp)]]]

\* the comparison written with > instead of >=
GeCutoff_Gt(c, cutoff) == c.k = "dt" /\ c.v > cutoff

\* timestamp >= cutoff, row by row: a comparison with NaT is False
GeCutoff(c, cutoff) == c.k = "dt" /\ c.v >= cutoff

\* the comparison written with <= instead of <
LtCutoff_Le(c, cutoff) == c.k = "dt" /\ c.v <= cutoff

\* timestamp < cutoff, row by row: a comparison with NaT is False
LtCutoff(c, cutoff) == c.k = "dt" /\ c.v < cutoff

\* df[df["timestamp"] >= cutoff]
HotOf(df, cutoff) ==
    Filter(df, [i \in 1..Len(df.rows) |-> GeCutoff(df.rows[i].timestamp, cutoff)])

\* df[df["timestamp"] < cutoff]
ColdOf(df, cutoff) ==
    Filter(df, [i \in 1..Len(df.rows) |-> LtCutoff(df.rows[i].timestamp, cutoff)])

\* datetime.now() - timedelta(days=30)
CutoffAt(now) == now - Window

\* ---------------------------------------------------------------- inputs
SeqsUpTo(S, n) == UNION { [1..m -> S] : m \in 0..n }

\* rows of a table with the columns a, b
AbRows == [a : {Int1(1), Int1(3)}, b : {Int1(2), NullCell}]

\* the timestamp texts of an uploaded table: 45 days, 30 days and 2 days
\* before the session starts, a text that is not a date, and an absent value
TsCells == {Str(StartClock - 45), Str(StartClock - Window), Str(StartClock - 2),
            Str(BadDate), NullCell}

\* rows of a table with the columns a, timestamp
TsRows == [a : {Int1(1), Int1(2)}, timestamp : TsCells]

TablesOf(cols, Rows, n) == { Frame(cols, r) : r \in SeqsUpTo(Rows, n) }

Tables(n) == TablesOf(<<"a", "b">>, AbRows, n) \cup TablesOf(<<"a", "timestamp">>, TsRows, n)

HasTimestamp(df) == Contains(df.columns, "timestamp")

Texts == SeqsUpTo(Chars, MaxChars)

\* the text of a txt file, the paragraphs of a docx
Paragraphs == { Unit(t) : t \in Texts }

\* the pages of a pdf
Pages == Paragraphs \cup {NoTextPage, RaisingPage}

CsvName == <<"data", Dot, "csv">>
TabularNames == { <<"data", Dot, "CSV">>, <<"data", Dot, "xml", Dot, "Json">>,
                  <<"report", Dot, "xlsx">>, <<"csv">> }
UnsupportedNames == { <<"data", Dot, "xml">>, <<"data", Dot, "csv", Dot, "xml">>,
                      <<"data", Dot>>, <<"data", "csv">>, <<"csv", Dot, "data">> }

\* the stage of the run at which a library call raises, if any
FailPlans(t) ==
    {"none", "ingest", "clean", "serialize", "compress"}
        \cup (IF HasTimestamp(t) THEN {"partition"} ELSE {})

File(n, t, u, f) == [name |-> n, table |-> t, units |-> u, fails |-> f]

\* the files a user uploads
Uploads ==
    { File(CsvName, t, <<>>, "none") : t \in Tables(MaxRows) }
    \cup UNION { { File(CsvName, t, <<>>, f) : f \in FailPlans(t) } : t \in Tables(FailRows) }
    \cup { File(n, t, <<>>, "none") : n \in TabularNames \cup UnsupportedNames, t \in Tables(1) }
    \cup { File(<<"notes", Dot, "Txt">>, EmptyFrame, <<u>>, f) :
             u \in Paragraphs, f \in {"none", "ingest"} }
    \cup { File(<<"doc", Dot, "docx">>, EmptyFrame, u, f) :
             u \in SeqsUpTo(Paragraphs, MaxUnits), f \in {"none", "ingest"} }
    \cup { File(<<"doc", Dot, "pdf">>, EmptyFrame, u, f) :
             u \in SeqsUpTo(Pages, MaxUnits), f \in {"none", "ingest"} }

\* ----------------------------------------------------------------- state
VARIABLES
    clock,          \* datetime.now(), in days
    uploaded,       \* the file in the uploader of the current run
    pc,             \* position of the run in the upload handler
    df,             \* the DataFrame being processed
    before, after_na, after_dup,
    processed_csv, compressed,
    removed_na, removed_dup,
    cutoff, hot_data, cold_data,
    ui,             \* what the run has written to the page, in order
    fmt_num,        \* the argument of a call of bytesize_fmt on its own
    fmt_out,        \* the result of that call
    earlier         \* history: how the run before the current one ended

vars == << clock, uploaded, pc, df, before, after_na, after_dup, processed_csv,
           compressed, removed_na, removed_dup, cutoff, hot_data, cold_data, ui,
           fmt_num, fmt_out, earlier >>

FmtVars == << fmt_num, fmt_out >>

\* what a step inside a run leaves alone
Aside == << fmt_num, fmt_out, earlier >>

\* a local variable that has not been assigned
None == [none |-> TRUE]
Unset == 0 - 1

Show(kind, arg) == [kind |-> kind, arg |-> arg]

\* an except clause that shows nothing
ErrorShown_Silent == Show("log", 0)

\* st.error(f"An error occurred: {e}") of the except clause
ErrorShown == Show("error", 0)

Locals == << df, before, after_na, after_dup, processed_csv, compressed,
             removed_na, removed_dup, cutoff, hot_data, cold_data >>

InitLocals ==
    /\ df = None
    /\ before = Unset /\ after_na = Unset /\ after_dup = Unset
    /\ processed_csv = None /\ compressed = None
    /\ removed_na = Unset /\ removed_dup = Unset
    /\ cutoff = Unset /\ hot_data = None /\ cold_data = None

\* a rerun that keeps the values the run before it left in the locals
ResetLocals_Keep == UNCHANGED Locals

\* the script starts over: no local is assigned
ResetLocals ==
    /\ df' = None
    /\ before' = Unset /\ after_na' = Unset /\ after_dup' = Unset
    /\ processed_csv' = None /\ compressed' = None
    /\ removed_na' = Unset /\ removed_dup' = Unset
    /\ cutoff' = Unset /\ hot_data' = None /\ cold_data' = None

\* no file is in the uploader
NoRun ==
    /\ clock = StartClock
    /\ uploaded = None
    /\ pc = "idle"
    /\ ui = <<>>
    /\ InitLocals
    /\ earlier = "none"

Init ==
    /\ NoRun
    /\ fmt_num = None
    /\ fmt_out = None

\* ---------------------------------------------------------------- actions
Terminal == {"done", "failed", "stopped"}

\* the user takes the file out of the uploader: the script runs from the top,
\* `if uploaded:` is false and the page shows no result.  (Replacing the file
\* by another one is this step followed by Upload.)
RemoveFile ==
    /\ pc \in Terminal
    /\ uploaded' = None
    /\ pc' = "idle"
    /\ ui' = <<>>
    /\ ResetLocals
    /\ earlier' = pc
    /\ UNCHANGED clock
    /\ UNCHANGED FmtVars

\* the wall clock advances, also while a run is in progress
Tick ==
    /\ clock < StartClock + ClockTicks
    /\ clock' = clock + 1
    /\ UNCHANGED << uploaded, pc, ui, Locals >>
    /\ UNCHANGED Aside

\* the user puts a file in the uploader: the script runs from the top with
\* fresh locals and an empty page
Upload ==
    /\ pc = "idle"
    /\ \E f \in Uploads : uploaded' = f
    /\ pc' = "read"
    /\ ui' = <<>>
    /\ ResetLocals
    /\ UNCHANGED clock
    /\ UNCHANGED Aside

\* the except clause: one error message, the run ends
Raise ==
    /\ ui' = Append(ui, ErrorShown)
    /\ pc' = "failed"

\* df = read_uploaded_file(uploaded); the preview of the original data
ReadUploadedFile ==
    /\ pc = "read"
    /\ IF FileExtension(uploaded.name) \notin SupportedExt
       THEN /\ ui' = Append(ui, Show("error_unsupported", FileExtension(uploaded.name)))
            /\ pc' = "stopped"
            /\ UNCHANGED df
       ELSE IF ReadRaises(uploaded)
       THEN Raise /\ UNCHANGED df
       ELSE /\ df' = ReadFrame(uploaded)
            /\ ui' = Append(ui, Show("preview_original", Head5(ReadFrame(uploaded))))
            /\ pc' = "clean"
    /\ UNCHANGED << clock, uploaded, before, after_na, after_dup, processed_csv,
                    compressed, removed_na, removed_dup, cutoff, hot_data, cold_data >>
    /\ UNCHANGED Aside

\* before .. after_dup: dropna, then drop_duplicates
Clean ==
    /\ pc = "clean"
    /\ IF uploaded.fails = "clean"
       THEN Raise /\ UNCHANGED << df, before, after_na, after_dup >>
       ELSE /\ before' = Cleaning(df).before
            /\ after_na' = Cleaning(df).after_na
            /\ df' = Cleaning(df).df
            /\ after_dup' = Cleaning(df).after_dup
            /\ pc' = "serialize"
            /\ UNCHANGED ui
    /\ UNCHANGED << clock, uploaded, processed_csv, compressed, removed_na,
                    removed_dup, cutoff, hot_data, cold_data >>
    /\ UNCHANGED Aside

\* processed_csv, compressed
Serialize ==
    /\ pc = "serialize"
    /\ CASE uploaded.fails = "serialize" ->
              Raise /\ UNCHANGED << processed_csv, compressed >>
         [] uploaded.fails = "compress" ->
              /\ processed_csv' = dataframe_to_csv_bytes(df)
              /\ Raise
              /\ UNCHANGED compressed
         [] OTHER ->
              /\ processed_csv' = dataframe_to_csv_bytes(df)
              /\ compressed' = GzipCompress(dataframe_to_csv_bytes(df))
              /\ pc' = "report"
              /\ UNCHANGED ui
    /\ UNCHANGED << clock, uploaded, df, before, after_na, after_dup, removed_na,
                    removed_dup, cutoff, hot_data, cold_data >>
    /\ UNCHANGED Aside

\* the message about the incomplete rows
NaMessage(n) == IF n > 0 THEN Show("info_removed_na", n) ELSE Show("success_no_na", 0)

\* the message about the duplicate rows
DupMessage(n) == IF n > 0 THEN Show("info_removed_dup", n) ELSE Show("success_no_dup", 0)

\* removed_na, removed_dup and their two messages
ReportRemovals ==
    /\ pc = "report"
    /\ removed_na' = before - after_na
    /\ removed_dup' = after_na - after_dup
    /\ ui' = ui \o << NaMessage(before - after_na), DupMessage(after_na - after_dup) >>
    /\ pc' = "partition"
    /\ UNCHANGED << clock, uploaded, df, before, after_na, after_dup, processed_csv,
                    compressed, cutoff, hot_data, cold_data >>
    /\ UNCHANGED Aside

\* the no-timestamp branch without its notice
SkipNotice_Silent == <<>>

\* st.warning("No 'timestamp' column found. Skipping hot/cold data distribution.")
SkipNotice == << Show("warning_no_timestamp", 0) >>

\* the timestamp column is parsed and the cutoff is read off the clock, or
\* the notice that the split is skipped is shown
Partition ==
    /\ pc = "partition"
    /\ IF HasTimestamp(df)
       THEN /\ df' = ParseTimestamps(df)
            /\ cutoff' = CutoffAt(clock)
            /\ pc' = "hot"
            /\ UNCHANGED << ui, hot_data, cold_data >>
       ELSE /\ ui' = ui \o SkipNotice
            /\ hot_data' = EmptyFrame
            /\ cold_data' = EmptyFrame
            /\ pc' = "show"
            /\ UNCHANGED << df, cutoff >>
    /\ UNCHANGED << clock, uploaded, before, after_na, after_dup, processed_csv,
                    compressed, removed_na, removed_dup >>
    /\ UNCHANGED Aside

\* a comparison that reads the clock again instead of the variable cutoff
ComparedWith_Reread(c, now) == CutoffAt(now)

\* the value the comparisons of the split use: the variable cutoff
ComparedWith(c, now) == c

\* hot_data = df[df["timestamp"] >= cutoff]; the comparison raises for
\* timestamps pandas cannot compare with the cutoff
SelectHot ==
    /\ pc = "hot"
    /\ IF uploaded.fails = "partition"
       THEN Raise /\ UNCHANGED hot_data
       ELSE /\ hot_data' = HotOf(df, ComparedWith(cutoff, clock))
            /\ pc' = "cold"
            /\ UNCHANGED ui
    /\ UNCHANGED << clock, uploaded, df, before, after_na, after_dup, processed_csv,
                    compressed, removed_na, removed_dup, cutoff, cold_data >>
    /\ UNCHANGED Aside

\* cold_data = df[df["timestamp"] < cutoff]
SelectCold ==
    /\ pc = "cold"
    /\ cold_data' = ColdOf(df, ComparedWith(cutoff, clock))
    /\ pc' = "show"
    /\ UNCHANGED << clock, uploaded, df, before, after_na, after_dup, processed_csv,
                    compressed, removed_na, removed_dup, cutoff, hot_data, ui >>
    /\ UNCHANGED Aside

\* the three metrics
Metrics(d, csv, z) ==
    << Show("metric_rows", LenDf(d)),
       Show("metric_csv_size", bytesize_fmt(Num(CsvLen(csv)))),
       Show("metric_gzip_size", bytesize_fmt(Num(GzipLen(z)))) >>

\* the two download buttons
Downloads(csv, z) ==
    << Show("download", [data |-> csv, file_name |-> "processed.csv", mime |-> "text/csv"]),
       Show("download", [data |-> z, file_name |-> "processed.csv.gz",
                         mime |-> "application/gzip"]) >>

\* metrics, the preview of the processed data and the downloads
ShowResults ==
    /\ pc = "show"
    /\ ui' = ui \o Metrics(df, processed_csv, compressed)
                \o << Show("preview_processed", Head5(df)) >>
                \o Downloads(processed_csv, compressed)
    /\ pc' = "done"
    /\ UNCHANGED << clock, uploaded, Locals >>
    /\ UNCHANGED Aside

Next ==
    \/ Tick
    \/ Upload
    \/ RemoveFile
    \/ ReadUploadedFile
    \/ Clean
    \/ Serialize
    \/ ReportRemovals
    \/ Partition
    \/ SelectHot
    \/ SelectCold
    \/ ShowResults

Spec == Init /\ [][Next]_vars

\* ------------------------------------------- bytesize_fmt called on its own
\* the byte counts handed to bytesize_fmt: m * 1024^e
Mantissas == {0, 1, 1023, 1024, 1536, 2047, 2048, 1048575, 1048576,
              0 - 1, 0 - 1023, 0 - 1024, 0 - 2048, 0 - 1048575}

ByteCounts == { n \in [m : Mantissas, e : 0..MaxExp] : n.m = 0 => n.e = 0 }

InitFmt ==
    /\ NoRun
    /\ fmt_num \in ByteCounts
    /\ fmt_out = None

\* fmt_out = bytesize_fmt(fmt_num)
Format ==
    /\ fmt_out = None
    /\ fmt_out' = bytesize_fmt(fmt_num)
    /\ UNCHANGED << clock, uploaded, pc, ui, Locals, fmt_num, earlier >>

NextFmt == Format

SpecFmt == InitFmt /\ [][NextFmt]_vars

\* ======================================================================
\* Properties
\* ======================================================================

\* the table read_uploaded_file returned in the current run
Ingested == ReadFrame(uploaded)

\* df holds the cleaned table as cleaning left it
CleanedHere == pc \in {"serialize", "report", "partition"}

\* positions of the rows of t with an absent value in some column
IncompleteIdx(t) ==
    { i \in 1..Len(t.rows) :
        \E c \in 1..Len(t.columns) : t.rows[i][t.columns[c]].k \in {"null", "nat"} }

CompleteIdx(t) == (1..Len(t.rows)) \ IncompleteIdx(t)

\* positions of the complete rows of t that repeat an earlier complete row
RepeatIdx(t) ==
    { i \in CompleteIdx(t) : \E j \in CompleteIdx(t) : j < i /\ t.rows[j] = t.rows[i] }

\* the k-th smallest element of a set of positions
IdxAt(S, k) == CHOOSE i \in S : Cardinality({ j \in S : j < i }) = k - 1

\* the rows of t at the positions S, in the order of t
RowsAt(t, S) == [k \in 1..Cardinality(S) |-> t.rows[IdxAt(S, k)]]

\* the entries of the page of one kind
UiOf(kind) == { i \in 1..Len(ui) : ui[i].kind = kind }

\* the number of removed rows the page reports with the pair of messages
\* info / success (Unset when it reports none)
Reported(info, success) ==
    IF \E i \in UiOf(info) : TRUE
    THEN (CHOOSE n \in { ui[i].arg : i \in UiOf(info) } : TRUE)
    ELSE IF \E i \in UiOf(success) : TRUE THEN 0 ELSE Unset

Retained == { df.index[k] : k \in 1..Len(df.index) }

\* C2: in the cleaned table a complete row is missing if and only if an
\* earlier retained row has the same values in every column; a complete row
\* is retained if and only if no earlier complete row equals it.
C2_FirstOccurrenceKept ==
    CleanedHere =>
      \A i \in CompleteIdx(Ingested) :
        /\ (i - 1) \notin Retained <=>
             \E j \in 1..(i - 1) :
                /\ (j - 1) \in Retained
                /\ \A c \in 1..Len(Ingested.columns) :
                      Ingested.rows[j][Ingested.columns[c]]
                         = Ingested.rows[i][Ingested.columns[c]]
        /\ (i - 1) \in Retained <=>
             \A j \in CompleteIdx(Ingested) :
                j < i => Ingested.rows[j] # Ingested.rows[i]

\* C2 witness: a cleaned table from which a repeated row was dropped while
\* another row came between the two occurrences
C2_Witness ==
    /\ pc = "partition"
    /\ after_na - after_dup > 0
    /\ \E i, j \in CompleteIdx(Ingested) :
          j > i + 1 /\ Ingested.rows[i] = Ingested.rows[j] /\ (i - 1) \in Retained

\* C10: the rows of the cleaned table are rows of the ingested table, in
\* the order they have there
C10_OrderPreserved ==
    CleanedHere =>
      /\ \A k \in 1..Len(df.rows) :
            /\ df.index[k] + 1 \in 1..Len(Ingested.rows)
            /\ df.rows[k] = Ingested.rows[df.index[k] + 1]
      /\ \A k, m \in 1..Len(df.rows) : k < m => df.index[k] < df.index[m]

\* C10 witness: two different rows retained around a removed one
C10_Witness ==
    /\ pc = "partition"
    /\ Len(df.rows) >= 2
    /\ df.rows[1] # df.rows[2]
    /\ df.index[2] > df.index[1] + 1

\* the partitions of the current run have been computed
Partitioned == pc \in {"show", "done"}

Labels(t) == { t.index[k] : k \in 1..Len(t.index) }

\* the count of unclassified rows the page reports (0 when it reports none)
ReportedUnclassified ==
    IF UiOf("metric_unclassified") = {} THEN 0
    ELSE CHOOSE n \in { ui[i].arg : i \in UiOf("metric_unclassified") } : TRUE

\* C3: with a timestamp column, every cleaned row is in hot, in cold, or in
\* a reported unclassified count: the counts add up to the cleaned rows.
C3_NoRowSilentlyDropped ==
    (Partitioned /\ HasTimestamp(df)) =>
       LenDf(hot_data) + LenDf(cold_data) + ReportedUnclassified = LenDf(df)

\* every timestamp of the cleaned table parsed
AllParsed == \A k \in 1..Len(df.rows) : df.rows[k].timestamp.k = "dt"

\* C4: when every timestamp of the cleaned table parses, hot and cold are
\* disjoint and together are exactly the cleaned rows.
C4_PartitionCoverage ==
    (Partitioned /\ HasTimestamp(df) /\ AllParsed) =>
       /\ Labels(hot_data) \cap Labels(cold_data) = {}
       /\ Labels(hot_data) \cup Labels(cold_data) = Labels(df)
       /\ LenDf(hot_data) + LenDf(cold_data) = LenDf(df)

\* C4 witness: a split with rows on both sides, one of them at the cutoff
C4_Witness ==
    /\ pc = "done" /\ HasTimestamp(df) /\ AllParsed
    /\ LenDf(hot_data) >= 1 /\ LenDf(cold_data) >= 1
    /\ \E k \in 1..Len(df.rows) : df.rows[k].timestamp.v = cutoff

\* C5: the partitioning stage sets the cutoff to the evaluation time minus 30
\* days; a row is hot exactly when its parsed timestamp is >= the cutoff and
\* cold exactly when it is < the cutoff: a row at the cutoff and a row 2 days
\* older than the evaluation time are hot, a row 45 days older is cold.
C5_HotColdByCutoff ==
    /\ [][ (pc = "partition" /\ pc' = "hot") => cutoff' = clock - 30 ]_vars
    /\ []( (Partitioned /\ HasTimestamp(df)) =>
             \A k \in 1..Len(df.rows) :
               LET ts == df.rows[k].timestamp
                   parsed == ts.k = "dt"
                   label == df.index[k]
                   evaluated == cutoff + 30
               IN  /\ label \in Labels(hot_data) <=> (parsed /\ ts.v >= cutoff)
                   /\ label \in Labels(cold_data) <=> (parsed /\ ts.v < cutoff)
                   /\ (parsed /\ ts.v = cutoff) => label \in Labels(hot_data)
                   /\ (parsed /\ ts.v = evaluated - 2) => label \in Labels(hot_data)
                   /\ (parsed /\ ts.v = evaluated - 45) => label \in Labels(cold_data) )

\* C5 witness: read at day 45, the rows of day 15 (the cutoff) and day 43
\* are hot and the row of day 0 is cold
C5_Witness ==
    /\ pc = "show" /\ HasTimestamp(df) /\ cutoff = 15
    /\ \E k \in 1..Len(hot_data.rows) : hot_data.rows[k].timestamp = Datetime(15)
    /\ \E k \in 1..Len(hot_data.rows) : hot_data.rows[k].timestamp = Datetime(43)
    /\ \E k \in 1..Len(cold_data.rows) : cold_data.rows[k].timestamp = Datetime(0)

\* the page offers a download of this name and type with these bytes
Offers(name, mime, data) ==
    \E i \in UiOf("download") :
        ui[i].arg.file_name = name /\ ui[i].arg.mime = mime /\ ui[i].arg.data = data

AfterLastDot(name) ==
    LET dots == { i \in 1..Len(name) : name[i] = "." }
        last == IF dots = {} THEN 0 ELSE CHOOSE i \in dots : \A j \in dots : j <= i
    IN  SubSeq(name, last + 1, Len(name))

\* two texts are equal up to the case of their letters
SameIgnoringCase(x, y) == Lower(x) = Lower(y)

\* the name ends in one of the six extensions
ExtensionAccepted(name) ==
    \E e \in { <<"csv">>, <<"xlsx">>, <<"json">>, <<"txt">>, <<"pdf">>, <<"docx">> } :
        SameIgnoringCase(AfterLastDot(name), e)

\* C7: once the extension has been examined, the run has gone on to
\* ingestion if and only if the text after the last dot of the file name
\* is, ignoring case, one of csv, xlsx, json, txt, pdf, docx; otherwise the
\* page shows the unsupported-format error and nothing else, and nothing was
\* ingested or cleaned.
C7_ExtensionGate ==
    pc \notin {"idle", "read"} =>
       /\ pc # "stopped" <=> ExtensionAccepted(uploaded.name)
       /\ pc = "stopped" =>
            /\ Len(ui) = 1 /\ ui[1].kind = "error_unsupported"
            /\ UiOf("download") = {}
            /\ df = None /\ before = Unset /\ processed_csv = None

\* C7 witness: the file data.xml was rejected
C7_Witness ==
    /\ pc = "stopped"
    /\ uploaded.name = <<"data", ".", "xml">>
    /\ Len(uploaded.table.rows) = 1

\* C8: a failed run shows exactly one error message, as the last thing on
\* the page, and offers no download; nothing runs again after the failure
\* until the user changes the file.
C8_FailureIsTerminal ==
    /\ [](pc = "failed" =>
            /\ Cardinality(UiOf("error")) = 1
            /\ ui[Len(ui)].kind = "error"
            /\ UiOf("download") = {})
    /\ [][pc = "failed" =>
            \/ (pc' = "failed" /\ ui' = ui /\ df' = df /\ uploaded' = uploaded)
            \/ (pc' = "idle" /\ uploaded' = None)]_vars

\* C8 witness: the comparison with the cutoff raised, after the removal
\* messages were shown
C8_Witness ==
    /\ pc = "failed" /\ uploaded.fails = "partition"
    /\ Len(ui) = 4 /\ LenDf(df) >= 1

\* the page shows a metric of this kind
Shows(kind) == UiOf(kind) # {}

\* C9: a successful run offers exactly the two downloads and reports the
\* row count, the two sizes, the two removal counts and, with a timestamp
\* column, the hot and cold row counts.
C9_SuccessReports ==
    pc = "done" =>
       /\ Cardinality(UiOf("download")) = 2
       /\ Offers("processed.csv", "text/csv", processed_csv)
       /\ Offers("processed.csv.gz", "application/gzip", compressed)
       /\ Shows("metric_rows") /\ Shows("metric_csv_size") /\ Shows("metric_gzip_size")
       /\ Reported("info_removed_na", "success_no_na") = removed_na
       /\ Reported("info_removed_dup", "success_no_dup") = removed_dup
       /\ HasTimestamp(df) => (Shows("metric_hot") /\ Shows("metric_cold"))

\* the current run meets no failure: it ends with the downloads
Succeeds ==
    /\ pc # "idle"
    /\ FileExtension(uploaded.name) \in SupportedExt
    /\ ~ ReadRaises(uploaded)
    /\ uploaded.fails = "none"

\* C11: in a successful run cleaning follows ingestion, partitioning follows
\* cleaning, and the text bytes and the compressed bytes exist only once
\* the partitions of the run have been computed.
C11_StageOrder ==
    Succeeds =>
       /\ before # Unset => df # None
       /\ hot_data # None => after_dup # Unset
       /\ processed_csv # None => (hot_data # None /\ cold_data # None)
       /\ compressed # None => (hot_data # None /\ cold_data # None)

\* the partitioning stage has started
AfterPartitioning == pc \in {"hot", "cold", "show", "done"}

\* C12: partitioning leaves the cleaned table unchanged: after it, the table
\* that is previewed and counted has in every column the values cleaning
\* produced.
C12_PartitionLeavesTableUnchanged ==
    /\ AfterPartitioning =>
         df.rows = RowsAt(Ingested, CompleteIdx(Ingested) \ RepeatIdx(Ingested))
    /\ pc = "done" =>
         \A i \in UiOf("preview_processed") :
            ui[i].arg.rows = SubSeq(RowsAt(Ingested, CompleteIdx(Ingested) \ RepeatIdx(Ingested)),
                                    1, Len(ui[i].arg.rows))

\* two cells have the same value as text (an absent value is no text)
SameAsText(x, y) == x.k = y.k /\ (x.k \notin {"null", "nat"} => x.v = y.v)

\* the bytes of the cleaned table have been produced and df still is the
\* cleaned table
SerializedHere == pc \in {"report", "partition"}

\* C13: reading the canonical text bytes of the cleaned table back as
\* delimited text gives the same columns in the same order and, row by row,
\* the same values as text, also for a row whose value is the empty string.
C13_RoundTrip ==
    SerializedHere =>
       LET back == ReadCsv(processed_csv)
       IN  /\ back.columns = df.columns
           /\ Len(back.rows) = Len(df.rows)
           /\ \A i \in 1..Len(df.rows) : \A c \in 1..Len(df.columns) :
                 SameAsText(back.rows[i][df.columns[c]], df.rows[i][df.columns[c]])

\* ---------------------------------------------------------- bytesize_fmt
\* abs(m) < 1024^j
BelowPow(m, j) ==
    IF j <= 0 THEN m = 0
    ELSE IF j >= 4 THEN TRUE
    ELSE Abs(m) < Pow1024(j)

\* the number of unit steps for the byte count n: the least k with
\* abs(n) < 1024^(k+1), and 5 (the P unit) when there is none below 5
UnitSteps(n) ==
    IF \E k \in 0..4 : BelowPow(n.m, k + 1 - n.e)
    THEN CHOOSE k \in 0..4 :
            /\ BelowPow(n.m, k + 1 - n.e)
            /\ \A j \in 0..(k - 1) : ~ BelowPow(n.m, j + 1 - n.e)
    ELSE 5

UnitOf(k) == IF k = 5 THEN "P" ELSE Units[k + 1]

\* the printed number is n / 1024^k, rounded to the printed decimals
PrintsQuotient(out, n, k) ==
    LET ten == IF out.decimals = 2 THEN 100 ELSE 10
    IN  IF n.e >= k
        THEN out.scaled = ten * n.m /\ out.exp = n.e - k
        ELSE out.scaled = RoundDiv(ten * n.m, Pow1024(k - n.e)) /\ out.exp = 0

\* the printed number has magnitude below 1024
PrintedBelow1024(out) ==
    \/ out.scaled = 0
    \/ /\ out.exp = 0
       /\ Abs(out.scaled) < 1024 * (IF out.decimals = 2 THEN 100 ELSE 10)

\* the printed number has magnitude at most 1024
PrintedAtMost1024(out) ==
    \/ out.scaled = 0
    \/ /\ out.exp = 0
       /\ Abs(out.scaled) <= 1024 * (IF out.decimals = 2 THEN 100 ELSE 10)

Negated(out) == [out EXCEPT !.scaled = 0 - out.scaled]

\* bytesize_fmt divides once per unit step and ends at the unit where the
\* magnitude falls below 1024; 0 is 0.00 B, 2048 is 2.00 K, and a negative
\* count prints as the negation of its magnitude
ScalesByUnitSteps ==
    fmt_out # None =>
       /\ fmt_out.unit = UnitOf(UnitSteps(fmt_num))
       /\ PrintsQuotient(fmt_out, fmt_num, UnitSteps(fmt_num))
       /\ fmt_num.m = 0 =>
             fmt_out = [scaled |-> 0, exp |-> 0, decimals |-> 2, unit |-> ""]
       /\ fmt_num = Num(2048) =>
             fmt_out = [scaled |-> 200, exp |-> 0, decimals |-> 2, unit |-> "K"]
       /\ fmt_num.m < 0 =>
             fmt_out = Negated(bytesize_fmt([m |-> 0 - fmt_num.m, e |-> fmt_num.e]))

\* C14 as stated: for every byte count bytesize_fmt divides by 1024 once per
\* unit step while the magnitude is at least 1024 and returns the unit
\* reached when it falls below 1024, so that the number it prints always has
\* magnitude below 1024; 0 maps to B, 2048 to 2.00 K, a negative count is
\* scaled by its magnitude.
C14_PrintedAlwaysBelow1024 ==
    /\ ScalesByUnitSteps
    /\ fmt_out # None => PrintedBelow1024(fmt_out)

\* what does hold: the unit and the quotient are as stated; the printed number
\* has magnitude at most 1024 for every count below 1024^6 (1024 itself only
\* by rounding, the quotient being below 1024), and a count of 1024^6 or more
\* is printed in the P unit with magnitude 1024 or more.
UnitAndMagnitude ==
    /\ ScalesByUnitSteps
    /\ fmt_out # None =>
          /\ UnitSteps(fmt_num) < 5 =>
                /\ PrintedAtMost1024(fmt_out)
                /\ BelowPow(fmt_num.m, UnitSteps(fmt_num) + 1 - fmt_num.e)
          /\ UnitSteps(fmt_num) = 5 =>
                IF BelowPow(fmt_num.m, 6 - fmt_num.e)
                THEN PrintedAtMost1024(fmt_out)
                ELSE ~ PrintedBelow1024(fmt_out)

\* C15: bytesize_fmt renders its number with exactly two decimal places for
\* every input, whichever of the six units is selected.
C15_TwoDecimals ==
    fmt_out # None => fmt_out.decimals = 2

\* C16: cleaning the cleaned table again removes no row for incompleteness,
\* because no row of a cleaned table has an absent value in any column.
C16_CleanedIsComplete ==
    CleanedHere =>
       /\ \A i \in 1..Len(df.rows) : \A c \in 1..Len(df.columns) :
             df.rows[i][df.columns[c]].k \notin {"null", "nat"}
       /\ Cleaning(df).before - Cleaning(df).after_na = 0

\* C16 witness: cleaning removed an incomplete row and kept a row
C16_Witness ==
    /\ pc = "partition"
    /\ removed_na >= 1
    /\ Len(df.rows) >= 1
    /\ Len(df.columns) >= 2

\* C17: removing duplicates twice gives the table that removing them once
\* gives, and a cleaned table never has two rows whose column values are all
\* equal.
C17_DedupIdempotent ==
    /\ pc = "clean" =>
          DropDuplicates(DropDuplicates(df)) = DropDuplicates(df)
    /\ CleanedHere =>
          /\ DropDuplicates(df) = df
          /\ \A i, j \in 1..Len(df.rows) :
                i < j => \E c \in 1..Len(df.columns) :
                            df.rows[i][df.columns[c]] # df.rows[j][df.columns[c]]

\* C17 witness: of three complete rows the third repeats the first and is
\* removed
C17_Witness ==
    /\ pc = "partition"
    /\ Len(uploaded.table.rows) = 3
    /\ before - after_na = 0
    /\ uploaded.table.rows[1] = uploaded.table.rows[3]
    /\ uploaded.table.rows[1] # uploaded.table.rows[2]
    /\ Len(df.rows) = 2

\* the rows are being, or have been, classified
Classifying == pc \in {"hot", "cold", "show", "done"} /\ HasTimestamp(df)

\* C18: in one run the evaluation time is read once; the cutoff made from it
\* stays what it is while the rows are classified, also when the clock
\* advances, and every row is judged against that one cutoff.
C18_OneCutoff ==
    /\ [][ (pc \in {"hot", "cold"} /\ pc' \in {"hot", "cold", "show"})
              => cutoff' = cutoff ]_vars
    /\ []( Classifying => \E now \in StartClock..clock : cutoff = CutoffAt(now) )
    /\ []( (Classifying /\ pc # "hot") =>
              \A k \in 1..Len(df.rows) :
                 df.index[k] \in Labels(hot_data)
                    <=> (df.rows[k].timestamp.k = "dt"
                         /\ df.rows[k].timestamp.v >= cutoff) )
    /\ []( (Classifying /\ pc \notin {"hot", "cold"}) =>
              \A k \in 1..Len(df.rows) :
                 df.index[k] \in Labels(cold_data)
                    <=> (df.rows[k].timestamp.k = "dt"
                         /\ df.rows[k].timestamp.v < cutoff) )

\* C18 witness: the clock has advanced since the cutoff was made, and the
\* row at the cutoff is hot
C18_Witness ==
    /\ pc = "cold"
    /\ clock = cutoff + Window + 1
    /\ \E k \in 1..Len(hot_data.rows) : hot_data.rows[k].timestamp = Datetime(cutoff)

RECURSIVE LinesOfUnits(_)
\* the lines of the units of a document, unit after unit: a unit without
\* text has no line
LinesOfUnits(units) ==
    IF units = <<>> THEN <<>>
    ELSE (IF units[1].out = "text" THEN SplitLines(units[1].text) ELSE <<>>)
            \o LinesOfUnits(Tail(units))

\* df is the table read_uploaded_file returned for a text-like file
TextIngested == pc = "clean" /\ FileExtension(uploaded.name) \in TextExt

\* C19: for txt, pdf and docx ingestion gives a table with exactly one
\* column whose rows are, in source order, the trimmed text of each extracted
\* line; page and paragraph boundaries are flattened so that the last line of
\* one unit and the first line of the next stay separate rows.
C19_OneRowPerLine ==
    TextIngested =>
       LET lines == LinesOfUnits(uploaded.units)
       IN  /\ df.columns = <<"text_content">>
           /\ Len(df.rows) = Len(lines)
           /\ \A k \in 1..Len(lines) : df.rows[k].text_content = Text(Strip(lines[k]))

\* C20: when text extraction fails for one page of a document that could be
\* opened, the page contributes no lines and ingestion goes on with the
\* other pages; the run is not aborted.
C20_PageFailureTolerated ==
    (/\ pc \notin {"idle", "read"}
     /\ FileExtension(uploaded.name) = <<"pdf">>
     /\ uploaded.fails = "none") =>
        /\ pc # "failed"
        /\ UiOf("error") = {}
        /\ UiOf("preview_original") # {}

\* ------------------------------------------------------ runs in sequence
\* what a run on a file computes from that file alone: the ingested table,
\* the cleaning record, the table after the partitioning stage, the bytes,
\* and the page of the finished run
RunOf(file) ==
    LET read == ReadFrame(file)
        c == Cleaning(read)
        final == IF HasTimestamp(c.df) THEN ParseTimestamps(c.df) ELSE c.df
        csv == dataframe_to_csv_bytes(c.df)
        gz == GzipCompress(csv)
    IN  [read |-> read, df |-> c.df, final |-> final,
         before |-> c.before, after_na |-> c.after_na, after_dup |-> c.after_dup,
         removed_na |-> c.before - c.after_na,
         removed_dup |-> c.after_na - c.after_dup,
         csv |-> csv, gz |-> gz,
         page |-> << Show("preview_original", Head5(read)),
                     NaMessage(c.before - c.after_na),
                     DupMessage(c.after_na - c.after_dup) >>
                  \o (IF HasTimestamp(c.df) THEN <<>> ELSE SkipNotice)
                  \o Metrics(final, csv, gz)
                  \o << Show("preview_processed", Head5(final)) >>
                  \o Downloads(csv, gz)]

\* the run got past ingestion
PastRead == pc \notin {"idle", "read", "stopped"} /\ ~ ReadRaises(uploaded)

\* the values the run holds are values of the run r, or not assigned yet
HoldsOnly(r) ==
    /\ df = r.read \/ df = r.df \/ df = r.final
    /\ before = Unset \/ before = r.before
    /\ after_na = Unset \/ after_na = r.after_na
    /\ after_dup = Unset \/ after_dup = r.after_dup
    /\ processed_csv = None \/ processed_csv = r.csv
    /\ compressed = None \/ compressed = r.gz
    /\ removed_na = Unset \/ removed_na = r.removed_na
    /\ removed_dup = Unset \/ removed_dup = r.removed_dup
    /\ cutoff = Unset \/ \E now \in StartClock..clock : cutoff = CutoffAt(now)
    /\ hot_data = None \/ hot_data = EmptyFrame \/ hot_data = HotOf(r.final, cutoff)
    /\ cold_data = None \/ cold_data = EmptyFrame \/ cold_data = ColdOf(r.final, cutoff)
    /\ \A i \in 1..Len(ui) :
          IF i = Len(ui) /\ pc = "failed"
          THEN ui[i] = ErrorShown
          ELSE i <= Len(r.page) /\ ui[i] = r.page[i]

\* the finished run holds exactly the values of the run r
HoldsAll(r) ==
    /\ df = r.final
    /\ removed_na = r.removed_na /\ removed_dup = r.removed_dup
    /\ processed_csv = r.csv /\ compressed = r.gz
    /\ HasTimestamp(df) =>
          (hot_data = HotOf(r.final, cutoff) /\ cold_data = ColdOf(r.final, cutoff))
    /\ ui = r.page

\* C21: whatever runs came before, a run's outputs depend only on its own
\* file and evaluation time: it starts with no local assigned and an empty
\* page, every value it holds is the one its own file (and the cutoff read in
\* this run) gives, a rejected or failed run shows only its own error, and a
\* finished run has exactly the table, counts, partitions, bytes and page of
\* its file, also when the run before it failed.
C21_RunsIndependent ==
    /\ pc = "idle" => (uploaded = None /\ ui = <<>> /\ InitLocals)
    /\ pc = "read" => (ui = <<>> /\ InitLocals)
    /\ pc = "stopped" =>
          (InitLocals /\ ui = << Show("error_unsupported", FileExtension(uploaded.name)) >>)
    /\ (pc = "failed" /\ ReadRaises(uploaded)) => (InitLocals /\ ui = << ErrorShown >>)
    /\ PastRead =>
          LET r == RunOf(uploaded)
          IN  HoldsOnly(r) /\ (pc = "done" => HoldsAll(r))

\* C21 witness: a run that follows a failed run has finished; it removed
\* rows and split its table
C21_Witness ==
    /\ earlier = "failed"
    /\ pc = "done"
    /\ removed_na > 0
    /\ HasTimestamp(df)
    /\ Len(hot_data.rows) > 0
    /\ Cardinality(UiOf("download")) = 2

\* the run has computed its removal counts
CountsTaken == pc # "idle" /\ removed_na # Unset

\* C22: in a run that reaches the reports both removal counts are >= 0 and
\* rows ingested = rows of the cleaned table + incomplete rows removed +
\* duplicate rows removed; the counts shown are these counts; an empty
\* ingested table gives the counts (0, 0) and an empty cleaned table.
C22_CountsAccountForRows ==
    CountsTaken =>
       /\ removed_na >= 0
       /\ removed_dup >= 0
       /\ Len(Ingested.rows) = Len(df.rows) + removed_na + removed_dup
       /\ Reported("info_removed_na", "success_no_na") = removed_na
       /\ Reported("info_removed_dup", "success_no_dup") = removed_dup
       /\ Len(Ingested.rows) = 0 =>
             (removed_na = 0 /\ removed_dup = 0 /\ Len(df.rows) = 0)

\* C22 witness: a finished run on three rows with a timestamp column, of
\* which one was incomplete, one a duplicate and one stays
C22_Witness ==
    /\ pc = "done"
    /\ Len(uploaded.table.rows) = 3
    /\ removed_na = 1
    /\ removed_dup = 1
    /\ Len(df.rows) = 1
    /\ HasTimestamp(df)

\* the data of the download of this name
DownloadOf(name) ==
    (CHOOSE i \in UiOf("download") : ui[i].arg.file_name = name)

\* the field holds the value of the cell as text
HoldsValue(f, c) ==
    IF c.k = "text" /\ c.v = <<>>
    THEN f.k \in {"empty", "quoted"}
    ELSE f.k = c.k /\ f.v = c.v

====
